---- MODULE Spec2Model ----
(***************************************************************************)
(* Deal stage matrix of simple_deal_dashboard.py: the reconstruction of a  *)
(* deal's stage progression (get_deal_stage_progression), the period axis  *)
(* and the deals x periods matrix (create_period_matrix).                  *)
(*                                                                         *)
(* Time is counted in ticks, TicksPerDay ticks to a day, from day 0 of the *)
(* proleptic Gregorian calendar (datetime.toordinal); every datetime is    *)
(* UTC, as after lines 432-435 and after pandas parsed a ...Z string.      *)
(***************************************************************************)
EXTENDS Integers, Sequences, FiniteSets, TLC

(* ------------------------------ bounds -------------------------------- *)

\* ticks in one day: the resolution of the model's clock
TicksPerDay == 2
\* most deals in one data frame
MaxDeals == 2
\* the end date lies at most this many frequency units after the start date
MaxSteps == 2
\* a data frame carries the first NumFields stage columns of the catalog
NumFields == 2

(* --------------------- datetime, timedelta, strftime ------------------- *)

\* pd.NaT / NaN: the absent timestamp
NaT == -1

\* a Timestamp without time zone that reads t on the wall clock
Naive(t) == -2 - t

IsNaive(x) == x < NaT

IsLeap(y) == (y % 4 = 0 /\ y % 100 # 0) \/ y % 400 = 0

DaysInMonth(y, m) ==
    IF m = 2 THEN (IF IsLeap(y) THEN 29 ELSE 28)
    ELSE IF m \in {4, 6, 9, 11} THEN 30 ELSE 31

DaysBeforeYear(y) ==
    (y - 1) * 365 + ((y - 1) \div 4) - ((y - 1) \div 100) + ((y - 1) \div 400)

DaysBeforeMonth(y, m) ==
    <<0, 31, 59, 90, 120, 151, 181, 212, 243, 273, 304, 334>>[m]
    + (IF m > 2 /\ IsLeap(y) THEN 1 ELSE 0)

\* datetime(y, m, d) at midnight, in ticks
DateTime(y, m, d) == (DaysBeforeYear(y) + DaysBeforeMonth(y, m) + d) * TicksPerDay

\* the calendar fields <<year, month, day>> of a datetime
Ymd(t) ==
    LET n == t \div TicksPerDay
        y == CHOOSE c \in (n \div 366)..((n \div 365) + 1) :
                 DaysBeforeYear(c) < n /\ n <= DaysBeforeYear(c + 1)
        r == n - DaysBeforeYear(y)
        m == CHOOSE c \in 1..12 :
                 DaysBeforeMonth(y, c) < r /\ r <= DaysBeforeMonth(y, c) + DaysInMonth(y, c)
    IN  <<y, m, r - DaysBeforeMonth(y, m)>>

YearOf(t) == Ymd(t)[1]
MonthOf(t) == Ymd(t)[2]
DayOf(t) == Ymd(t)[3]

\* t + timedelta(days=n)
PlusDays(t, n) == t + n * TicksPerDay

\* t.replace(year=y, month=m) raises ValueError when the day is not in that month
ReplaceRaises(t, y, m) == DayOf(t) > DaysInMonth(y, m)

\* t.replace(year=y, month=m): the day and the time of day are kept
Replace(t, y, m) == DateTime(y, m, DayOf(t)) + (t % TicksPerDay)


\* a string is the sequence of its character codes
Digit(n) == 48 + n
Dash == 45
Fmt2(n) == <<Digit(n \div 10), Digit(n % 10)>>
Fmt4(n) == <<Digit(n \div 1000), Digit((n \div 100) % 10)>> \o Fmt2(n % 100)

\* the string YYYY-MM-DD
IsoDate(y, m, d) == Fmt4(y) \o <<Dash>> \o Fmt2(m) \o <<Dash>> \o Fmt2(d)

\* t.strftime('%Y-%m-%d')
StrfYmd(t) == LET c == Ymd(t) IN IsoDate(c[1], c[2], c[3])

\* t.strftime('%Y-%m')
StrfYm(t) == LET c == Ymd(t) IN Fmt4(c[1]) \o <<Dash>> \o Fmt2(c[2])

(* --------------------------- stage catalog ----------------------------- *)

\* the dict stage_mapping, in insertion order
stage_mapping ==
    << <<"hs_v2_date_entered_1091569281", "Sign-up">>,
       <<"hs_v2_date_entered_1053523303", "Outreach done">>,
       <<"hs_v2_date_entered_1053523302", "To reach out">>,
       <<"hs_v2_date_entered_qualifiedtobuy", "Demo Booked">>,
       <<"hs_v2_date_entered_presentationscheduled", "Demo Done">>,
       <<"hs_v2_date_entered_appointmentscheduled", "Relevant Reply">>,
       <<"hs_v2_date_entered_contractsent", "Customer Converted">>,
       <<"hs_v2_date_entered_closedwon", "Closed Won">>,
       <<"hs_v2_date_entered_1141834547", "Post-demo follow-up">>,
       <<"hs_v2_date_entered_1053523301", "Follow-up done">>,
       <<"hs_v2_date_entered_1158033067", "$$$$ follow-ups">>,
       <<"hs_v2_date_entered_1155410330", "Active trial $$$$ #haisha">>,
       <<"hs_v2_date_entered_202676095", "Junk">>,
       <<"hs_v2_date_entered_981662285", "Not a good fit">>,
       <<"hs_v2_date_entered_closedlost", "Closed Lost">>,
       <<"hs_v2_date_entered_1053507879", "Churned">>,
       <<"hs_v2_date_entered_1155516059", "PoC not right but company relevant">>,
       <<"hs_v2_date_entered_1120008054", "Timing not right">>,
       <<"hs_v2_date_entered_202676096", "No Show">>,
       <<"hs_v2_date_entered_999971918", "Cold call done">> >>

FieldOf(k) == stage_mapping[k][1]
StageNameOf(k) == stage_mapping[k][2]

(* ------------------------------- state --------------------------------- *)

VARIABLES
    df,             \* the deals handed to create_period_matrix, one record per row
    start_date,     \* argument start_date
    end_date,       \* argument end_date
    frequency,      \* argument frequency
    pc,             \* where create_period_matrix stands: gen, rows, done, raised
    current_date,   \* local current_date of the period loop
    period_dates,   \* local period_dates
    progression,    \* local progression of the deal handled last
    matrix_data,    \* local matrix_data, the rows built so far; then matrix_df
    rows_seen,      \* calculate_stagnant_deals: the rows of matrix_df iterated so far
    stagnant_deals, \* calculate_stagnant_deals: local stagnant_deals, then the report
    prev_report,    \* the report of the call before the present one, if any
    csv_rows,       \* the rows of the newest hubspot_deals_*.csv, timestamps as text
    prev_matrix,    \* what the call of create_period_matrix before this one returned
    stage_column,   \* main: the column 'Current Stage' of the stage filter, by deal
    stagnant_threshold, \* main: the value of the slider
    shown_rows,     \* main: matrix_df after the stagnant deals filter
    access_token,   \* refresh_data_from_hubspot: whether HUBSPOT_ACCESS_TOKEN is set
    pages,          \* the deals held by the HubSpot API, in the pages it serves
    after,          \* get_all_deals: local after
    all_deals,      \* get_all_deals: local all_deals
    requests,       \* the requests sent by get_all_deals and what came back
    output_file,    \* refresh_data: what it returned
    files_written,  \* the hubspot_deals_<timestamp>.csv files written by the refresh
    cache_cleared,  \* whether load_and_process_data.clear() was called
    refreshed,      \* whether 'Data refreshed successfully!' was shown
    quick_option    \* main: the quick option button pressed in the run before

vars == <<df, start_date, end_date, frequency, pc, current_date, period_dates,
          progression, matrix_data, rows_seen, stagnant_deals, prev_report, csv_rows,
          prev_matrix, stage_column, stagnant_threshold, shown_rows,
          access_token, pages, after, all_deals, requests, output_file,
          files_written, cache_cleared, refreshed, quick_option>>

\* the locals of calculate_stagnant_deals and the report kept by the caller
stagVars == <<rows_seen, stagnant_deals, prev_report>>

\* what the matrix builder, the analyzer and main's validation leave alone
restVars == <<csv_rows, prev_matrix, stage_column, stagnant_threshold, shown_rows,
              access_token, pages, after, all_deals, requests, output_file,
              files_written, cache_cleared, refreshed, quick_option>>

\* the state of the extractor and of the refresh
apiVars == <<access_token, pages, after, all_deals, requests, output_file,
             files_written, cache_cleared, refreshed>>

\* Python's None where the model holds a cursor or a status code
None == 0

\* no quick option button was pressed
NoOption == ""

\* refresh_data returning None; like None, the empty name is falsy at line 365
NoFile == ""

\* what the filters of main write
filterVars == <<stage_column, stagnant_threshold, shown_rows>>

\* no call of create_period_matrix has returned yet
NoMatrix == <<>>

\* the state of what lies outside the flow at hand
Idle ==
    /\ prev_matrix = NoMatrix
    /\ stage_column = <<>>
    /\ stagnant_threshold = 3
    /\ shown_rows = <<>>
    /\ access_token = TRUE
    /\ pages = <<>>
    /\ after = None
    /\ all_deals = <<>>
    /\ requests = <<>>
    /\ output_file = NoFile
    /\ files_written = 0
    /\ cache_cleared = FALSE
    /\ refreshed = FALSE
    /\ quick_option = NoOption

(* --------------------- get_deal_stage_progression ---------------------- *)

\* an event is <<stage name, timestamp>>
EventName(e) == e[1]
EventDate(e) == e[2]

\* a timestamp property that is extracted (line 47) and is no key of stage_mapping
UnmappedField == "hs_v2_date_entered_current_stage"

\* mutant of CollectStageDates: the unmapped property gives an event as well
RECURSIVE CollectEveryColumn(_, _)
CollectEveryColumn(row, k) ==
    IF k = 0
    THEN (IF UnmappedField \in DOMAIN row.cols /\ row.cols[UnmappedField] # NaT
          THEN << <<"Current stage", row.cols[UnmappedField]>> >>
          ELSE <<>>)
    ELSE CollectEveryColumn(row, k - 1) \o
         (IF FieldOf(k) \in DOMAIN row.cols /\ row.cols[FieldOf(k)] # NaT
          THEN << <<StageNameOf(k), row.cols[FieldOf(k)]>> >>
          ELSE <<>>)

\* lines 419-421: one event per catalog field present on the row and not null
RECURSIVE CollectStageDates(_, _)
CollectStageDates(row, k) ==
    IF k = 0 THEN <<>>
    ELSE CollectStageDates(row, k - 1) \o
         (IF FieldOf(k) \in DOMAIN row.cols /\ row.cols[FieldOf(k)] # NaT
          THEN << <<StageNameOf(k), row.cols[FieldOf(k)]>> >>
          ELSE <<>>)

\* mutant of InsertByDate: e goes before the elements of its own date
InsertBeforeEqual(sorted, e) ==
    LET n == Cardinality({i \in 1..Len(sorted) : EventDate(sorted[i]) < EventDate(e)})
    IN  SubSeq(sorted, 1, n) \o <<e>> \o SubSeq(sorted, n + 1, Len(sorted))

\* one step of the stable sort: e goes after every element whose date is <= its own
InsertByDate(sorted, e) ==
    LET n == Cardinality({i \in 1..Len(sorted) : EventDate(sorted[i]) <= EventDate(e)})
    IN  SubSeq(sorted, 1, n) \o <<e>> \o SubSeq(sorted, n + 1, Len(sorted))

\* mutant of SortByDate: the list is left in catalog order
SortByDateOmitted(s) == s

\* list.sort(key=lambda x: x[1]): stable, ascending by date
RECURSIVE SortByDate(_)
SortByDate(s) ==
    IF s = <<>> THEN <<>>
    ELSE InsertByDate(SortByDate(SubSeq(s, 1, Len(s) - 1)), s[Len(s)])

get_deal_stage_progression(row) ==
    SortByDate(CollectStageDates(row, Len(stage_mapping)))

(* ------------------------ create_period_matrix ------------------------- *)

\* mutant of LoopContinues: < for <=
LoopStopsAtEnd(cur, end) == cur < end

\* the condition of the three while loops
LoopContinues(cur, end) == cur <= end

\* the step at the end of a loop body raises (Monthly only)
StepRaises(cur, f) ==
    /\ f = "Monthly"
    /\ IF MonthOf(cur) = 12 THEN ReplaceRaises(cur, YearOf(cur) + 1, 1)
       ELSE ReplaceRaises(cur, YearOf(cur), MonthOf(cur) + 1)

\* mutant of NextPeriodStart: a week of six days
NextPeriodStartShortWeek(cur, f) ==
    IF f = "Daily" THEN PlusDays(cur, 1)
    ELSE IF f = "Weekly" THEN PlusDays(cur, 6)
    ELSE IF MonthOf(cur) = 12 THEN Replace(cur, YearOf(cur) + 1, 1)
    ELSE Replace(cur, YearOf(cur), MonthOf(cur) + 1)

\* the step at the end of a loop body
NextPeriodStart(cur, f) ==
    IF f = "Daily" THEN PlusDays(cur, 1)
    ELSE IF f = "Weekly" THEN PlusDays(cur, 7)
    ELSE IF MonthOf(cur) = 12 THEN Replace(cur, YearOf(cur) + 1, 1)
    ELSE Replace(cur, YearOf(cur), MonthOf(cur) + 1)

\* mutant of PeriodEnd: the stage is read at the start of the period
PeriodEndIsPeriodStart(period_date, f) == period_date

\* period_end of lines 478-490
PeriodEnd(period_date, f) ==
    IF f = "Daily" THEN PlusDays(period_date, 1)
    ELSE IF f = "Weekly" THEN PlusDays(period_date, 7)
    ELSE IF MonthOf(period_date) = 12
         THEN Replace(period_date, YearOf(period_date) + 1, 1)
    ELSE Replace(period_date, YearOf(period_date), MonthOf(period_date) + 1)

\* mutant of PeriodKey: the month key for every frequency
PeriodKeyByMonth(period_date, f) == StrfYm(period_date)

\* period_key of lines 478-490
PeriodKey(period_date, f) ==
    IF f = "Monthly" THEN StrfYm(period_date) ELSE StrfYmd(period_date)

\* mutant of CreatedAfter: >= for >
CreatedAtOrAfter(deal, period_end) ==
    deal.created_at # NaT /\ deal.created_at >= period_end

\* the creation check of line 493
CreatedAfter(deal, period_end) ==
    deal.created_at # NaT /\ deal.created_at > period_end

\* the walk of lines 498-503 from event k on, cur the stage found so far
RECURSIVE StageWalk(_, _, _, _)
StageWalk(prog, period_end, k, cur) ==
    IF k > Len(prog) THEN cur
    ELSE IF EventDate(prog[k]) # NaT /\ EventDate(prog[k]) <= period_end
         THEN StageWalk(prog, period_end, k + 1, EventName(prog[k]))
    ELSE cur

\* mutant of StageDuringPeriod: < for <=
StageStrictlyBefore(prog, period_end) == StageWalk(prog, period_end - 1, 1, "")

\* mutant of StageDuringPeriod: the last event, whatever its date
StageOfLastEvent(prog, period_end) ==
    IF prog = <<>> THEN "" ELSE EventName(prog[Len(prog)])

\* mutant of StageDuringPeriod: the first event in time, once it has happened
StageOfEarliestEvent(prog, period_end) ==
    IF prog # <<>> /\ EventDate(prog[1]) <= period_end THEN EventName(prog[1]) ELSE ""

\* mutant of StageDuringPeriod: a stage is shown only in the period on whose last
\* day it was entered
StageEnteredLastDay(prog, period_end) ==
    IF \E k \in 1..Len(prog) :
           /\ EventDate(prog[k]) <= period_end
           /\ EventDate(prog[k]) > period_end - TicksPerDay
    THEN StageWalk(prog, period_end, 1, "")
    ELSE ""

StageDuringPeriod(prog, period_end) == StageWalk(prog, period_end, 1, "")

\* mutant of CellValue: a deal without events shows the first stage of the catalog
CellValueWithDefault(deal, prog, period_end) ==
    IF CreatedAfter(deal, period_end) THEN ""
    ELSE IF prog = <<>> THEN StageNameOf(1)
    ELSE StageDuringPeriod(prog, period_end)

\* the value written for one period, lines 492-505
CellValue(deal, prog, period_end) ==
    IF CreatedAfter(deal, period_end) THEN "" ELSE StageDuringPeriod(prog, period_end)

\* d[k] = v on a dict kept as the sequence of its <<key, value>> items
DictSet(d, k, v) ==
    IF \E i \in 1..Len(d) : d[i][1] = k
    THEN [i \in 1..Len(d) |-> IF d[i][1] = k THEN <<k, v>> ELSE d[i]]
    ELSE Append(d, <<k, v>>)

\* the period items of deal_row after the first j periods, lines 477-505
RECURSIVE PeriodCells(_, _, _, _, _)
PeriodCells(deal, prog, pds, f, j) ==
    IF j = 0 THEN <<>>
    ELSE DictSet(PeriodCells(deal, prog, pds, f, j - 1),
                 PeriodKey(pds[j], f),
                 CellValue(deal, prog, PeriodEnd(pds[j], f)))

\* line 493: ordering a Timestamp without time zone against the time-zone-aware
\* period_end raises TypeError, in the first period of the row
RowRaises(deal, pds) == IsNaive(deal.created_at) /\ pds # <<>>

\* the string 'Unknown'
Unknown == <<85, 110, 107, 110, 111, 119, 110>>

\* deal_row of lines 469-505
DealRow(deal, prog, pds, f) ==
    [DealName |-> deal.dealname,
     DealID |-> deal.deal_id,
     Created |-> IF deal.created_at # NaT THEN StrfYmd(deal.created_at) ELSE Unknown,
     LemlistCampaign |-> deal.last_contact_lemlist_campaign,
     cells |-> PeriodCells(deal, prog, pds, f, Len(pds))]

(* ---------------------- calculate_stagnant_deals ----------------------- *)

\* no call has returned a report yet
NoReport ==
    <<[deal_name |-> "", deal_id |-> -1, current_stage |-> "",
       stagnant_periods |-> 0, total_periods |-> 0]>>

\* mutant of NonEmptyStages: the empty values are kept
AllStages(cells) == [j \in 1..Len(cells) |-> cells[j][2]]

\* line 517: the non-empty values of the period columns of a row, in column order
RECURSIVE NonEmptyStages(_)
NonEmptyStages(cells) ==
    IF cells = <<>> THEN <<>>
    ELSE NonEmptyStages(SubSeq(cells, 1, Len(cells) - 1)) \o
         (IF cells[Len(cells)][2] # "" THEN <<cells[Len(cells)][2]>> ELSE <<>>)

\* mutant of CountFromEnd: every value equal to last_stage is counted
RECURSIVE CountEqual(_, _, _)
CountEqual(stages, i, last_stage) ==
    IF i = 0 THEN 0
    ELSE (IF stages[i] = last_stage THEN 1 ELSE 0) + CountEqual(stages, i - 1, last_stage)

\* lines 524-528 from index i down: the values equal to last_stage before the
\* first different one
RECURSIVE CountFromEnd(_, _, _)
CountFromEnd(stages, i, last_stage) ==
    IF i = 0 THEN 0
    ELSE IF stages[i] = last_stage THEN 1 + CountFromEnd(stages, i - 1, last_stage)
    ELSE 0

\* lines 520-536: the record of a row that has a non-empty value
StagnantRecord(row, stages) ==
    [deal_name |-> row.DealName,
     deal_id |-> row.DealID,
     current_stage |-> stages[Len(stages)],
     stagnant_periods |-> CountFromEnd(stages, Len(stages), stages[Len(stages)]),
     total_periods |-> Len(SelectSeq(stages, LAMBDA s : s # ""))]

\* mutant of StagnantAfter: a row without any stage gets a record too
StagnantAfterEveryRow(report, row) ==
    LET stages == NonEmptyStages(row.cells)
    IN  Append(report,
               IF Len(stages) > 0 THEN StagnantRecord(row, stages)
               ELSE [deal_name |-> row.DealName, deal_id |-> row.DealID,
                     current_stage |-> "", stagnant_periods |-> 0, total_periods |-> 0])

\* lines 517-536: stagnant_deals after one more row
StagnantAfter(report, row) ==
    LET stages == NonEmptyStages(row.cells)
    IN  IF Len(stages) > 0 THEN Append(report, StagnantRecord(row, stages)) ELSE report

(* -------------------- robust_date_parser and loading ------------------- *)

\* the number written by the two digits of str at p and p + 1
Num2(str, p) == (str[p] - 48) * 10 + (str[p + 1] - 48)

\* str reads YYYY-MM-DDTHH:MM:SS in its first 19 characters
HasIsoShape(str) ==
    /\ Len(str) >= 19
    /\ \A p \in {1, 2, 3, 4, 6, 7, 9, 10, 12, 13, 15, 16, 18, 19} : str[p] \in 48..57
    /\ str[5] = Dash /\ str[8] = Dash
    /\ str[11] = 84                        \* T
    /\ str[14] = 58 /\ str[17] = 58        \* :

\* what follows the seconds: nothing, Z, or a dot, three digits and Z
HasIsoSuffix(str) ==
    LET rest == SubSeq(str, 20, Len(str))
    IN  \/ rest = <<>>
        \/ rest = <<90>>
        \/ /\ Len(rest) = 5
           /\ rest[1] = 46 /\ rest[5] = 90
           /\ \A p \in 2..4 : rest[p] \in 48..57

\* pd.to_datetime of one string: <<TRUE, Timestamp>>, or <<FALSE, NaT>> when it
\* raises; the strings told apart are the ISO 8601 ones the extractor writes
ToDatetime(str) ==
    IF ~(HasIsoShape(str) /\ HasIsoSuffix(str)) THEN <<FALSE, NaT>>
    ELSE LET y == Num2(str, 1) * 100 + Num2(str, 3)
             m == Num2(str, 6)
             d == Num2(str, 9)
             hh == Num2(str, 12)
         IN  IF \/ y < 1678 \/ y > 2261
                \/ m < 1 \/ m > 12
                \/ d < 1 \/ d > DaysInMonth(y, m)
                \/ hh > 23 \/ Num2(str, 15) > 59 \/ Num2(str, 18) > 59
             THEN <<FALSE, NaT>>
             ELSE LET t == DateTime(y, m, d) + (hh * TicksPerDay) \div 24
                  IN  <<TRUE, IF Len(str) = 19 THEN Naive(t) ELSE t>>

HasChar(str, c) == \E p \in 1..Len(str) : str[p] = c

\* mutant of parse_single_date: what cannot be parsed becomes a date long past
ParseOrEpoch(date_str) ==
    IF date_str = <<>> THEN NaT
    ELSE IF ToDatetime(date_str)[1] THEN ToDatetime(date_str)[2]
    ELSE DateTime(2023, 1, 1)

\* parse_single_date, lines 279-307; the empty string stands for '' and for NaN
parse_single_date(date_str) ==
    IF date_str = <<>> THEN NaT
    ELSE LET first == ToDatetime(date_str)
         IN  IF first[1] THEN first[2]
             ELSE LET second ==
                          IF /\ HasChar(date_str, 84) /\ HasChar(date_str, 90)
                             /\ ~HasChar(date_str, 46)
                             /\ date_str[Len(date_str)] = 90
                          THEN ToDatetime(SubSeq(date_str, 1, Len(date_str) - 1) \o
                                          <<46, 48, 48, 48, 90>>)
                          ELSE ToDatetime(date_str)
                  IN  IF second[1] THEN second[2]
                      ELSE LET fourth ==
                                   IF Len(date_str) = 20 /\ date_str[20] = 90
                                   THEN ToDatetime(date_str)
                                   ELSE <<FALSE, NaT>>
                           IN  IF fourth[1] THEN fourth[2] ELSE NaT

\* lines 333-339 on one row: every column modelled is a date column
ParsedDeal(raw) ==
    [raw EXCEPT !.created_at = parse_single_date(raw.created_at),
                !.cols = [c \in DOMAIN raw.cols |-> parse_single_date(raw.cols[c])]]

\* t as HubSpot writes it, without and with milliseconds
IsoZ(t) ==
    StrfYmd(t) \o <<84>> \o Fmt2(((t % TicksPerDay) * 24) \div TicksPerDay) \o
    <<58, 48, 48, 58, 48, 48, 90>>
IsoMsZ(t) ==
    StrfYmd(t) \o <<84>> \o Fmt2(((t % TicksPerDay) * 24) \div TicksPerDay) \o
    <<58, 48, 48, 58, 48, 48, 46, 48, 48, 48, 90>>

(* ------------------------------- inputs -------------------------------- *)

Frequencies == {"Daily", "Weekly", "Monthly"}

\* a mid-month start, a first of the month, and a day that February lacks
StartDates == {DateTime(2023, 11, 15), DateTime(2023, 12, 1), DateTime(2023, 12, 30)}

UnitDays(f) == IF f = "Daily" THEN 1 ELSE IF f = "Weekly" THEN 7 ELSE 31

\* the day before the start, the day before one unit is over, and whole units
EndDates(s, f) ==
    {PlusDays(s, -1), PlusDays(s, UnitDays(f) - 1)} \cup
    {PlusDays(s, k * UnitDays(f)) : k \in 0..MaxSteps}

\* timestamps around the end of the first period
DealTimes(s, f) ==
    {PlusDays(s, UnitDays(f)) + o : o \in {-1, 0, 1}}

StageCols == {FieldOf(k) : k \in 1..NumFields}

MakeDeal(created, cols) ==
    [deal_id |-> 0, dealname |-> "deal", created_at |-> created,
     last_contact_lemlist_campaign |-> "", cols |-> cols]

\* created_at absent, at the end of the first period, or one tick after it
CreatedTimes(s, f) == {NaT, PlusDays(s, UnitDays(f)), PlusDays(s, UnitDays(f)) + 1}

\* deals without created_at and any stage timestamps, and deals with any
\* created_at and stage timestamps absent, at the end of the first period or one
\* tick before it
RichDeals(s, f) ==
    {MakeDeal(NaT, cols) : cols \in [StageCols -> DealTimes(s, f) \cup {NaT}]} \cup
    {MakeDeal(c, cols) : c \in CreatedTimes(s, f),
                         cols \in [StageCols -> {PlusDays(s, UnitDays(f)) - o : o \in {0, 1}}
                                               \cup {NaT}]}

SmallDeals(s, f) ==
    {MakeDeal(NaT, [c \in StageCols |-> IF c = FieldOf(1) THEN t ELSE NaT]) :
        t \in {PlusDays(s, UnitDays(f)), NaT}}

\* deal_id is the position in the frame
WithIds(frame) == [i \in 1..Len(frame) |-> [frame[i] EXCEPT !.deal_id = i]]

\* the deals of SmallDeals with the unmapped property set, before the end of
\* the first period
UnmappedDeals(s, f) ==
    {[d EXCEPT !.cols = @ @@ (UnmappedField :> PlusDays(s, UnitDays(f)) - 1)] :
        d \in SmallDeals(s, f)}

Frames(s, f) ==
    {<<>>} \cup {<<d>> : d \in RichDeals(s, f)} \cup
    {<<d>> : d \in UnmappedDeals(s, f)} \cup
    UNION {[1..n -> SmallDeals(s, f)] : n \in 2..MaxDeals}

\* the deal of the weekly scenario
ScenarioDeal ==
    MakeDeal(DateTime(2024, 1, 1),
             (FieldOf(1) :> DateTime(2024, 1, 5)) @@ (FieldOf(4) :> DateTime(2024, 1, 20)))

Start(s, e, f, frame) ==
    /\ df = WithIds(frame)
    /\ start_date = s
    /\ end_date = e
    /\ frequency = f
    /\ pc = "gen"
    /\ current_date = s
    /\ period_dates = <<>>
    /\ progression = <<>>
    /\ matrix_data = <<>>
    /\ rows_seen = 0
    /\ stagnant_deals = <<>>
    /\ prev_report = NoReport
    /\ csv_rows = <<>>
    /\ Idle

Init ==
    \/ Start(DateTime(2024, 1, 1), DateTime(2024, 1, 29), "Weekly", <<ScenarioDeal>>)
    \/ \E f \in Frequencies, s \in StartDates :
           \E e \in EndDates(s, f), frame \in Frames(s, f) : Start(s, e, f, frame)

(* ------------------------------- actions ------------------------------- *)

\* one pass of the while loop of lines 441-456
GenPeriod ==
    /\ pc = "gen"
    /\ LoopContinues(current_date, end_date)
    /\ period_dates' = Append(period_dates, current_date)
    /\ IF StepRaises(current_date, frequency)
       THEN pc' = "raised" /\ UNCHANGED current_date
       ELSE pc' = "gen" /\ current_date' = NextPeriodStart(current_date, frequency)
    /\ UNCHANGED <<df, start_date, end_date, frequency, progression, matrix_data>>
    /\ UNCHANGED stagVars
    /\ UNCHANGED restVars

\* the while loop ends
GenDone ==
    /\ pc = "gen"
    /\ ~LoopContinues(current_date, end_date)
    /\ pc' = "rows"
    /\ UNCHANGED <<df, start_date, end_date, frequency, current_date, period_dates,
                   progression, matrix_data>>
    /\ UNCHANGED stagVars
    /\ UNCHANGED restVars

\* mutant of BuildRow: the new row is put in front of the others
BuildRowPrepended ==
    /\ pc = "rows"
    /\ Len(matrix_data) < Len(df)
    /\ LET deal == df[Len(matrix_data) + 1]
           prog == get_deal_stage_progression(deal)
       IN  /\ progression' = prog
           /\ IF RowRaises(deal, period_dates)
              THEN pc' = "row_raised" /\ UNCHANGED matrix_data
              ELSE /\ pc' = pc
                   /\ matrix_data' =
                          <<DealRow(deal, prog, period_dates, frequency)>> \o matrix_data
    /\ UNCHANGED <<df, start_date, end_date, frequency, current_date, period_dates>>
    /\ UNCHANGED stagVars
    /\ UNCHANGED restVars

\* one pass of the for loop of lines 461-507; nothing in the loop or around it
\* catches an exception, so a raise in the row of a deal leaves the function
BuildRow ==
    /\ pc = "rows"
    /\ Len(matrix_data) < Len(df)
    /\ LET deal == df[Len(matrix_data) + 1]
           prog == get_deal_stage_progression(deal)
       IN  /\ progression' = prog
           /\ IF RowRaises(deal, period_dates)
              THEN pc' = "row_raised" /\ UNCHANGED matrix_data
              ELSE /\ pc' = pc
                   /\ matrix_data' =
                          Append(matrix_data, DealRow(deal, prog, period_dates, frequency))
    /\ UNCHANGED <<df, start_date, end_date, frequency, current_date, period_dates>>
    /\ UNCHANGED stagVars
    /\ UNCHANGED restVars

\* line 509
Return ==
    /\ pc = "rows"
    /\ Len(matrix_data) = Len(df)
    /\ pc' = "done"
    /\ UNCHANGED <<df, start_date, end_date, frequency, current_date, period_dates,
                   progression, matrix_data>>
    /\ UNCHANGED stagVars
    /\ UNCHANGED restVars

\* one pass of the for loop of lines 516-536, on the matrix returned
StagnantRow ==
    /\ pc \in {"done", "staged", "stagnant"}
    /\ rows_seen < Len(matrix_data)
    /\ pc' = "stagnant"
    /\ rows_seen' = rows_seen + 1
    /\ stagnant_deals' = StagnantAfter(stagnant_deals, matrix_data[rows_seen + 1])
    /\ UNCHANGED <<df, start_date, end_date, frequency, current_date, period_dates,
                   progression, matrix_data, prev_report>>
    /\ UNCHANGED restVars

\* line 538
StagnantReturn ==
    /\ pc \in {"done", "staged", "stagnant"}
    /\ rows_seen = Len(matrix_data)
    /\ pc' = "reported"
    /\ UNCHANGED <<df, start_date, end_date, frequency, current_date, period_dates,
                   progression, matrix_data, rows_seen, stagnant_deals, prev_report>>
    /\ UNCHANGED restVars

Next == GenPeriod \/ GenDone \/ BuildRow \/ Return \/ StagnantRow \/ StagnantReturn

Spec == Init /\ [][Next]_vars

(* ------------------------ reading the matrix --------------------------- *)

\* the axis is complete: the period loop has ended without raising
AxisBuilt == pc \in {"rows", "done"}

Rows == 1..Len(matrix_data)
Periods == 1..Len(period_dates)

DictGet(d, k) == d[CHOOSE i \in 1..Len(d) : d[i][1] = k][2]

\* the cell of deal i in the column of period j
CellAt(i, j) == DictGet(matrix_data[i].cells, PeriodKey(period_dates[j], frequency))

\* the start of period j plus one frequency step
BoundaryOf(j) == NextPeriodStart(period_dates[j], frequency)

\* the catalog entries that have a timestamp on the deal
EnteredFields(deal) ==
    {k \in 1..Len(stage_mapping) :
        FieldOf(k) \in DOMAIN deal.cols /\ deal.cols[FieldOf(k)] # NaT}

EnteredAt(deal, k) == deal.cols[FieldOf(k)]

SetMax(S) == CHOOSE x \in S : \A y \in S : y <= x

\* the lexicographic order of two strings
RECURSIVE StrLess(_, _)
StrLess(a, b) ==
    IF a = <<>> THEN b # <<>>
    ELSE IF b = <<>> THEN FALSE
    ELSE IF Head(a) # Head(b) THEN Head(a) < Head(b)
    ELSE StrLess(Tail(a), Tail(b))

\* a scan over all events that keeps the latest one at or before the boundary
LatestAtOrBefore(prog, boundary) ==
    LET S == {k \in 1..Len(prog) : EventDate(prog[k]) <= boundary}
    IN  IF S = {} THEN ""
        ELSE LET top == SetMax({EventDate(prog[k]) : k \in S})
             IN  EventName(prog[SetMax({k \in S : EventDate(prog[k]) = top})])

(* ------------------------------- claims -------------------------------- *)

\* C1: where the creation check does not trigger, the cell is the stage of the
\* latest event at or before the period's end boundary (period start plus one
\* frequency step), found by a scan over all events taking the maximum, and it
\* is empty when no event is at or before the boundary.
C1_CellIsLatestEvent ==
    \A i \in Rows, j \in Periods :
        ~(df[i].created_at # NaT /\ df[i].created_at > BoundaryOf(j)) =>
            /\ CellAt(i, j) =
                   LatestAtOrBefore(get_deal_stage_progression(df[i]), BoundaryOf(j))
            /\ (\A k \in EnteredFields(df[i]) : EnteredAt(df[i], k) > BoundaryOf(j))
                   => CellAt(i, j) = ""

\* the walk stops at a later event: one event at the boundary, the next past it
C1_Witness ==
    /\ pc = "done"
    /\ \E i \in Rows, j \in Periods :
           /\ df[i].created_at = NaT
           /\ Len(progression) = 2
           /\ EventDate(progression[1]) = BoundaryOf(j)
           /\ EventDate(progression[2]) > BoundaryOf(j)
           /\ CellAt(i, j) = EventName(progression[1])
           /\ i = Len(matrix_data)

\* the run of the weekly scenario: catalog entries Sign-up and Demo Booked, a
\* deal created 2024-01-01, Weekly from 2024-01-01 to 2024-01-29
ScenarioDone ==
    /\ df = WithIds(<<ScenarioDeal>>)
    /\ start_date = DateTime(2024, 1, 1)
    /\ end_date = DateTime(2024, 1, 29)
    /\ frequency = "Weekly"
    /\ pc = "done"

\* C2 as stated: the scenario's row is empty, Sign-up, Sign-up, Demo Booked,
\* Demo Booked.
C2_ScenarioRowAsStated ==
    ScenarioDone =>
        matrix_data[1].cells =
            << <<IsoDate(2024, 1, 1), "">>,
               <<IsoDate(2024, 1, 8), "Sign-up">>,
               <<IsoDate(2024, 1, 15), "Sign-up">>,
               <<IsoDate(2024, 1, 22), "Demo Booked">>,
               <<IsoDate(2024, 1, 29), "Demo Booked">> >>

\* C2 amended: the scenario's row is Sign-up, Sign-up, Demo Booked, Demo Booked,
\* Demo Booked: each cell shows the stage at the END of its week.
C2_ScenarioRow ==
    ScenarioDone =>
        matrix_data[1].cells =
            << <<IsoDate(2024, 1, 1), "Sign-up">>,
               <<IsoDate(2024, 1, 8), "Sign-up">>,
               <<IsoDate(2024, 1, 15), "Demo Booked">>,
               <<IsoDate(2024, 1, 22), "Demo Booked">>,
               <<IsoDate(2024, 1, 29), "Demo Booked">> >>

C2_Witness == ScenarioDone /\ Len(matrix_data) = 1 /\ Len(period_dates) = 5

\* C3: a cell is emptied by the creation check exactly when created_at is known
\* and strictly after the period's end, whatever the stage timestamps; with
\* created_at absent or at or before the end, a deal that has entered a stage by
\* then keeps a non-empty cell; each period is judged on its own.
C3_CreationCheck ==
    \A i \in Rows, j \in Periods :
        LET deal == df[i]
            boundary == BoundaryOf(j)
        IN  /\ (deal.created_at # NaT /\ deal.created_at > boundary) => CellAt(i, j) = ""
            /\ ( /\ deal.created_at = NaT \/ deal.created_at <= boundary
                 /\ \E k \in EnteredFields(deal) : EnteredAt(deal, k) <= boundary )
               => CellAt(i, j) # ""

\* one deal, created after the first period's end with a stage entered before
\* it: the first cell is empty, the second is not
C3_Witness ==
    /\ pc = "done"
    /\ \E i \in Rows, j \in Periods :
           /\ j + 1 \in Periods
           /\ df[i].created_at # NaT
           /\ df[i].created_at > BoundaryOf(j)
           /\ df[i].created_at <= BoundaryOf(j + 1)
           /\ \E k \in EnteredFields(df[i]) : EnteredAt(df[i], k) < BoundaryOf(j)
           /\ CellAt(i, j) = ""
           /\ CellAt(i, j + 1) # ""

\* C4: a non-empty cell names a stage the deal entered at or before that
\* period's end boundary.
C4_CellCausality ==
    \A i \in Rows, j \in Periods :
        CellAt(i, j) # "" =>
            \E k \in EnteredFields(df[i]) :
                /\ StageNameOf(k) = CellAt(i, j)
                /\ EnteredAt(df[i], k) <= BoundaryOf(j)

\* a populated cell of a deal that enters another stage after the period's end
C4_Witness ==
    /\ pc = "done"
    /\ \E i \in Rows, j \in Periods :
           /\ CellAt(i, j) # ""
           /\ \E k \in EnteredFields(df[i]) :
                  /\ EnteredAt(df[i], k) > BoundaryOf(j)
                  /\ StageNameOf(k) # CellAt(i, j)

\* C5: the progression holds exactly one event per catalog field that is
\* present and not null on the record, none with a null timestamp, in ascending
\* order of timestamp; a record without stage timestamps gives the empty
\* sequence.
C5_Progression ==
    Len(matrix_data) >= 1 =>
        LET deal == df[Len(matrix_data)]
        IN  /\ Len(progression) = Cardinality(EnteredFields(deal))
            /\ \A k \in EnteredFields(deal) :
                   Cardinality({n \in 1..Len(progression) :
                       progression[n] = <<StageNameOf(k), EnteredAt(deal, k)>>}) = 1
            /\ \A n \in 1..Len(progression) : EventDate(progression[n]) # NaT
            /\ \A n \in 1..Len(progression) - 1 :
                   EventDate(progression[n]) <= EventDate(progression[n + 1])
            /\ EnteredFields(deal) = {} => progression = <<>>

\* the sort acted: the later catalog entry was entered first
C5_Witness ==
    /\ Len(matrix_data) >= 1
    /\ Len(progression) = 2
    /\ progression[1][1] = StageNameOf(2)
    /\ progression[2][1] = StageNameOf(1)
    /\ EventDate(progression[1]) < EventDate(progression[2])

\* the place of a stage name in the catalog
CatalogIndex(name) == CHOOSE k \in 1..Len(stage_mapping) : StageNameOf(k) = name

\* events of equal timestamp stand in catalog order in the progression of every
\* deal of the frame
TiesInCatalogOrder ==
    \A i \in 1..Len(df) :
        LET prog == get_deal_stage_progression(df[i])
        IN  \A a, b \in 1..Len(prog) :
                (a < b /\ EventDate(prog[a]) = EventDate(prog[b]))
                    => CatalogIndex(EventName(prog[a])) < CatalogIndex(EventName(prog[b]))

\* the catalog entries tied for the latest timestamp at or before the boundary
TiedLatest(deal, boundary) ==
    LET S == {k \in EnteredFields(deal) : EnteredAt(deal, k) <= boundary}
    IN  IF S = {} THEN {}
        ELSE {k \in S : EnteredAt(deal, k) = SetMax({EnteredAt(deal, n) : n \in S})}

\* C6 as stated: tied events stand in catalog order, and whenever two or more
\* stages are tied for the latest timestamp at or before a period's end the cell
\* holds the tied stage that comes last in the catalog.
C6_TieBreakAsStated ==
    /\ TiesInCatalogOrder
    /\ \A i \in Rows, j \in Periods :
           Cardinality(TiedLatest(df[i], BoundaryOf(j))) >= 2 =>
               CellAt(i, j) = StageNameOf(SetMax(TiedLatest(df[i], BoundaryOf(j))))

\* C6 amended: the same, for the periods whose creation check does not trigger
\* (created_at absent or at or before the period's end).
C6_TieBreak ==
    /\ TiesInCatalogOrder
    /\ \A i \in Rows, j \in Periods :
           ( /\ Cardinality(TiedLatest(df[i], BoundaryOf(j))) >= 2
             /\ ~(df[i].created_at # NaT /\ df[i].created_at > BoundaryOf(j)) ) =>
               CellAt(i, j) = StageNameOf(SetMax(TiedLatest(df[i], BoundaryOf(j))))

\* two stages entered exactly at a period's end: the cell shows the later one
\* of the catalog
C6_Witness ==
    /\ pc = "done"
    /\ \E i \in Rows, j \in Periods :
           /\ TiedLatest(df[i], BoundaryOf(j)) = {1, 2}
           /\ EnteredAt(df[i], 1) = BoundaryOf(j)
           /\ df[i].created_at = BoundaryOf(j)
           /\ CellAt(i, j) = StageNameOf(2)

\* the date one frequency step after t: one day, seven days, or the same day
\* of the next calendar month, January of the next year after December
StepOf(t, f) ==
    IF f = "Daily" THEN t + TicksPerDay
    ELSE IF f = "Weekly" THEN t + 7 * TicksPerDay
    ELSE IF MonthOf(t) = 12 THEN DateTime(YearOf(t) + 1, 1, DayOf(t)) + (t % TicksPerDay)
    ELSE DateTime(YearOf(t), MonthOf(t) + 1, DayOf(t)) + (t % TicksPerDay)

\* C7: the axis the function builds is start, step(start), step(step(start)),
\* ... for as long as the value is <= end, oldest first, and is empty when
\* start > end; while it is being built it is a prefix of that sequence.
C7_PeriodAxis ==
    /\ \A j \in Periods :
           /\ period_dates[j] <= end_date
           /\ j = 1 => period_dates[j] = start_date
           /\ j > 1 => period_dates[j] = StepOf(period_dates[j - 1], frequency)
    /\ AxisBuilt =>
           /\ start_date > end_date => period_dates = <<>>
           /\ start_date <= end_date => period_dates # <<>>
           /\ period_dates # <<>> =>
                  StepOf(period_dates[Len(period_dates)], frequency) > end_date

\* a monthly axis that goes from December to January of the next year
C7_Witness ==
    /\ AxisBuilt
    /\ frequency = "Monthly"
    /\ \E j \in Periods :
           /\ j + 1 \in Periods
           /\ MonthOf(period_dates[j]) = 12
           /\ MonthOf(period_dates[j + 1]) = 1
           /\ YearOf(period_dates[j + 1]) = YearOf(period_dates[j]) + 1
           /\ DayOf(period_dates[j + 1]) = DayOf(period_dates[j])

\* C8: the periods of a built axis are strictly increasing, non-overlapping and
\* contiguous (the end boundary used for the cells of a period is the start of
\* the next period), and the first period starts at start.
C8_Contiguous ==
    AxisBuilt =>
        /\ \A j, k \in Periods : j < k =>
               /\ period_dates[j] < period_dates[k]
               /\ PeriodEnd(period_dates[j], frequency) <= period_dates[k]
        /\ \A j \in Periods : j + 1 \in Periods =>
               PeriodEnd(period_dates[j], frequency) = period_dates[j + 1]
        /\ start_date <= end_date => period_dates[1] = start_date

\* a weekly axis of three periods with its rows built
C8_Witness ==
    /\ pc = "done"
    /\ frequency = "Weekly"
    /\ Len(period_dates) >= 3
    /\ Len(matrix_data) >= 1

\* the first day of the month after the month of t
FirstOfNextMonth(t) ==
    IF MonthOf(t) = 12 THEN DateTime(YearOf(t) + 1, 1, 1)
    ELSE DateTime(YearOf(t), MonthOf(t) + 1, 1)

\* C9: the end boundary used for the cells of a period is the first day of the
\* following month for Monthly, whatever the start date, the start plus one day
\* for Daily and plus seven days for Weekly.
C9_PeriodEndBoundary ==
    AxisBuilt =>
        \A j \in Periods :
            PeriodEnd(period_dates[j], frequency) =
                IF frequency = "Monthly" THEN FirstOfNextMonth(period_dates[j])
                ELSE IF frequency = "Weekly" THEN period_dates[j] + 7 * TicksPerDay
                ELSE period_dates[j] + TicksPerDay

\* C10: the period keys of one build are pairwise distinct and their string
\* order is the order of the periods, so every row has one column per period,
\* in period order.
C10_PeriodKeys ==
    AxisBuilt =>
        /\ \A j, k \in Periods : j < k =>
               /\ PeriodKey(period_dates[j], frequency) # PeriodKey(period_dates[k], frequency)
               /\ StrLess(PeriodKey(period_dates[j], frequency),
                          PeriodKey(period_dates[k], frequency))
        /\ \A j \in Periods :
               PeriodKey(period_dates[j], frequency) =
                   IF frequency = "Monthly"
                   THEN Fmt4(YearOf(period_dates[j])) \o <<Dash>> \o Fmt2(MonthOf(period_dates[j]))
                   ELSE IsoDate(YearOf(period_dates[j]), MonthOf(period_dates[j]),
                                DayOf(period_dates[j]))
        /\ \A i \in Rows :
               /\ Len(matrix_data[i].cells) = Len(period_dates)
               /\ \A j \in Periods :
                      matrix_data[i].cells[j][1] = PeriodKey(period_dates[j], frequency)

\* daily periods on both sides of a month's end, with a row built
C10_Witness ==
    /\ pc = "done"
    /\ frequency = "Daily"
    /\ Len(matrix_data) >= 1
    /\ \E j \in Periods :
           /\ j + 1 \in Periods
           /\ MonthOf(period_dates[j]) # MonthOf(period_dates[j + 1])
           /\ \E k \in Periods : k # j /\ MonthOf(period_dates[k]) = MonthOf(period_dates[j])

\* C11: the matrix returned has one row per input deal, in input order, each
\* with the fixed columns of its deal and one cell per period in period order;
\* an empty deal set gives zero rows.
C11_OneRowPerDeal ==
    /\ Len(matrix_data) <= Len(df)
    /\ pc = "done" => Len(matrix_data) = Len(df)
    /\ \A i \in Rows :
           /\ matrix_data[i].DealID = df[i].deal_id
           /\ matrix_data[i].DealName = df[i].dealname
           /\ matrix_data[i].LemlistCampaign = df[i].last_contact_lemlist_campaign
           /\ matrix_data[i].Created =
                  IF df[i].created_at = NaT THEN Unknown
                  ELSE IsoDate(YearOf(df[i].created_at), MonthOf(df[i].created_at),
                               DayOf(df[i].created_at))
           /\ Len(matrix_data[i].cells) = Len(period_dates)
           /\ \A j \in Periods :
                  matrix_data[i].cells[j][1] = PeriodKey(period_dates[j], frequency)
    /\ (pc = "done" /\ df = <<>>) => matrix_data = <<>>

\* two deals with different rows over two periods or more, returned in order
C11_Witness ==
    /\ pc = "done"
    /\ Len(df) = 2
    /\ Len(period_dates) >= 2
    /\ matrix_data[1].DealID = 1
    /\ matrix_data[2].DealID = 2
    /\ matrix_data[1].cells # matrix_data[2].cells

(* -------------------- the analyzer on matrices at large ----------------- *)

\* the widest matrix of one row, and of two rows, analysed
MaxCells == 5
MaxPairCells == 2

\* the values of a cell: empty or one of two stage names
StagnantStages == {"", StageNameOf(1), StageNameOf(2)}

\* the name of column j
ColumnKey(j) == Fmt2(j)

KeyedCells(vals) == [j \in 1..Len(vals) |-> <<ColumnKey(j), vals[j]>>]

MatrixRow(id, vals) ==
    [DealName |-> "deal", DealID |-> id, Created |-> Unknown,
     LemlistCampaign |-> "", cells |-> KeyedCells(vals)]

StagnantMatrices ==
    UNION {{<<MatrixRow(1, v)>> : v \in [1..n -> StagnantStages]} : n \in 0..MaxCells}
    \cup
    UNION {{<<MatrixRow(1, v), MatrixRow(2, w)>> :
               v \in [1..n -> StagnantStages], w \in [1..n -> StagnantStages]} :
           n \in 0..MaxPairCells}

\* calculate_stagnant_deals is entered with a matrix of any content
StagnantInit ==
    \E m \in StagnantMatrices :
        /\ df = <<>>
        /\ start_date = DateTime(2024, 1, 1)
        /\ end_date = DateTime(2024, 1, 1)
        /\ frequency = "Daily"
        /\ pc = "done"
        /\ current_date = DateTime(2024, 1, 1)
        /\ period_dates = <<>>
        /\ progression = <<>>
        /\ matrix_data = m
        /\ rows_seen = 0
        /\ stagnant_deals = <<>>
        /\ prev_report = NoReport
        /\ csv_rows = <<>>
        /\ Idle

CellValues(row) == [j \in 1..Len(row.cells) |-> row.cells[j][2]]

InsertAt(vals, p, v) == SubSeq(vals, 1, p - 1) \o <<v>> \o SubSeq(vals, p, Len(vals))
RemoveAt(vals, p) == SubSeq(vals, 1, p - 1) \o SubSeq(vals, p + 1, Len(vals))

\* the report is kept and the analyzer is called again on the matrix with an
\* empty column put in at position p
InsertEmptyColumn ==
    /\ pc = "reported"
    /\ matrix_data # <<>>
    /\ Len(matrix_data[1].cells) < MaxCells
    /\ \E p \in 1..(Len(matrix_data[1].cells) + 1) :
           matrix_data' = [i \in 1..Len(matrix_data) |->
               [matrix_data[i] EXCEPT
                   !.cells = KeyedCells(InsertAt(CellValues(matrix_data[i]), p, ""))]]
    /\ prev_report' = stagnant_deals
    /\ UNCHANGED restVars
    /\ stagnant_deals' = <<>>
    /\ rows_seen' = 0
    /\ pc' = "done"
    /\ UNCHANGED <<df, start_date, end_date, frequency, current_date, period_dates,
                   progression>>

\* the report is kept and the analyzer is called again on the matrix with a
\* column empty in every row taken out
RemoveEmptyColumn ==
    /\ pc = "reported"
    /\ matrix_data # <<>>
    /\ \E p \in 1..Len(matrix_data[1].cells) :
           /\ \A i \in 1..Len(matrix_data) : matrix_data[i].cells[p][2] = ""
           /\ matrix_data' = [i \in 1..Len(matrix_data) |->
                  [matrix_data[i] EXCEPT
                      !.cells = KeyedCells(RemoveAt(CellValues(matrix_data[i]), p))]]
    /\ prev_report' = stagnant_deals
    /\ UNCHANGED restVars
    /\ stagnant_deals' = <<>>
    /\ rows_seen' = 0
    /\ pc' = "done"
    /\ UNCHANGED <<df, start_date, end_date, frequency, current_date, period_dates,
                   progression>>

StagnantNext == StagnantRow \/ StagnantReturn \/ InsertEmptyColumn \/ RemoveEmptyColumn

SpecStagnant == StagnantInit /\ [][StagnantNext]_vars

\* the records of the report for deal id
RecordsOf(id) == {stagnant_deals[n] : n \in {m \in 1..Len(stagnant_deals) :
                                                stagnant_deals[m].deal_id = id}}

\* the columns of row i that hold a stage
Filled(i) == {j \in 1..Len(matrix_data[i].cells) : matrix_data[i].cells[j][2] # ""}

\* the rightmost stage of row i
Rightmost(i) == matrix_data[i].cells[SetMax(Filled(i))][2]

\* the filled columns of row i from which every filled column up to the right
\* end holds the rightmost stage
TrailingRun(i) ==
    {j \in Filled(i) : \A k \in Filled(i) : k >= j => matrix_data[i].cells[k][2] = Rightmost(i)}

\* C12: for a row with a non-empty cell the record has current_stage the
\* rightmost non-empty value, stagnant_periods the length of the run of that
\* value at the end of the non-empty values, and total_periods the number of
\* non-empty cells; the values A, A, B, B, B give B, 3, 5.
C12_StagnantRecord ==
    pc = "reported" =>
        \A i \in Rows :
            /\ Filled(i) # {} =>
                   /\ RecordsOf(matrix_data[i].DealID) # {}
                   /\ \A r \in RecordsOf(matrix_data[i].DealID) :
                          /\ r.current_stage = Rightmost(i)
                          /\ r.stagnant_periods = Cardinality(TrailingRun(i))
                          /\ r.total_periods = Cardinality(Filled(i))
            /\ CellValues(matrix_data[i]) =
                   <<StageNameOf(1), StageNameOf(1), StageNameOf(2), StageNameOf(2),
                     StageNameOf(2)>> =>
                   \E r \in RecordsOf(matrix_data[i].DealID) :
                       /\ r.current_stage = StageNameOf(2)
                       /\ r.stagnant_periods = 3
                       /\ r.total_periods = 5

\* the row A, A, B, B, B has been analysed
C12_Witness ==
    /\ pc = "reported"
    /\ Len(matrix_data) = 1
    /\ CellValues(matrix_data[1]) =
           <<StageNameOf(1), StageNameOf(1), StageNameOf(2), StageNameOf(2), StageNameOf(2)>>
    /\ Len(stagnant_deals) = 1
    /\ stagnant_deals[1].stagnant_periods = 3

\* C13: the report on a matrix that differs from the one analysed before by an
\* empty column put in or taken out, at any position, equals the report before.
C13_EmptyCellsIgnored ==
    (pc = "reported" /\ prev_report # NoReport) => stagnant_deals = prev_report

\* a report after such a change, on a row with an empty cell between stages
\* and another after the last stage
C13_Witness ==
    /\ pc = "reported"
    /\ prev_report # NoReport
    /\ stagnant_deals # <<>>
    /\ Len(matrix_data) = 1
    /\ \E j \in 1..Len(matrix_data[1].cells) :
           /\ j \notin Filled(1)
           /\ \E a, b \in Filled(1) : a < j /\ j < b
    /\ Len(matrix_data[1].cells) \notin Filled(1)

\* the deal ids of the rows that hold a stage, in row order
FilledRowIds ==
    LET filled == SelectSeq(matrix_data, LAMBDA r : \E j \in 1..Len(r.cells) : r.cells[j][2] # "")
    IN  [n \in 1..Len(filled) |-> filled[n].DealID]

\* C14 as stated: the report has a record for every row of the matrix, with an
\* empty current_stage for a row whose period cells are all empty.
C14_OneRecordPerRowAsStated ==
    pc = "reported" =>
        \A i \in Rows :
            \E r \in RecordsOf(matrix_data[i].DealID) :
                Filled(i) = {} => r.current_stage = ""

\* C14: the report has one record for every row that has a non-empty period
\* cell, in row order, and none for a row whose period cells are all empty.
C14_OneRecordPerFilledRow ==
    pc = "reported" =>
        /\ [n \in 1..Len(stagnant_deals) |-> stagnant_deals[n].deal_id] = FilledRowIds
        /\ \A i \in Rows : Filled(i) = {} => RecordsOf(matrix_data[i].DealID) = {}
        /\ \A n \in 1..Len(stagnant_deals) : stagnant_deals[n].current_stage # ""

\* a matrix of an all-empty row before a row with a stage has been analysed
C14_Witness ==
    /\ pc = "reported"
    /\ Len(matrix_data) = 2
    /\ Len(matrix_data[1].cells) >= 1
    /\ Filled(1) = {}
    /\ Filled(2) # {}
    /\ Len(stagnant_deals) = 1
    /\ stagnant_deals[1].deal_id = matrix_data[2].DealID

(* ------------------------------ main flow ------------------------------- *)

\* the calendar day of a timestamp, .dt.date
DateOf(t) == t \div TicksPerDay

\* mutant of RangeInvalid: equal dates are let through
RangeInvalidStrict(s, e) == s > e

\* line 720, the condition under which main reports the error and stops
RangeInvalid(s, e) == s >= e

\* lines 858-876: filtered_df
FilteredDf(frame, show_all_deals, date_range, selected_deals) ==
    IF show_all_deals THEN frame
    ELSE LET dated == IF Len(date_range) = 2
                      THEN SelectSeq(frame, LAMBDA d :
                               /\ d.created_at # NaT
                               /\ DateOf(d.created_at) >= date_range[1]
                               /\ DateOf(d.created_at) <= date_range[2])
                      ELSE frame
         IN  IF selected_deals # {}
             THEN SelectSeq(dated, LAMBDA d : d.dealname \in selected_deals)
             ELSE dated

\* the dates offered by the two date inputs
MainDates == {DateTime(2024, 1, 1), DateTime(2024, 1, 8), DateTime(2024, 1, 15)}

\* the values of the creation date range input: a pair, or one date while the
\* second is being picked
DateRanges ==
    {<<DateOf(lo), DateOf(hi)>> : lo \in MainDates, hi \in {DateTime(2024, 1, 8), DateTime(2024, 1, 15)}}
    \cup {<<DateOf(DateTime(2024, 1, 1))>>}

\* main has loaded df and read the date inputs and the frequency (lines 596-658)
MainInit ==
    \E f \in Frequencies, s \in MainDates, e \in MainDates :
        \E frame \in Frames(s, f) :
            /\ df = WithIds(frame)
            /\ start_date = s
            /\ end_date = e
            /\ frequency = f
            /\ pc = "main"
            /\ current_date = NaT
            /\ period_dates = <<>>
            /\ progression = <<>>
            /\ matrix_data = <<>>
            /\ rows_seen = 0
            /\ stagnant_deals = <<>>
            /\ prev_report = NoReport
            /\ csv_rows = <<>>
            /\ Idle

\* lines 719-722: st.error and st.stop
MainStop ==
    /\ pc = "main"
    /\ RangeInvalid(start_date, end_date)
    /\ pc' = "stopped"
    /\ UNCHANGED <<df, start_date, end_date, frequency, current_date, period_dates,
                   progression, matrix_data>>
    /\ UNCHANGED stagVars
    /\ UNCHANGED restVars

\* lines 719-886: the range is accepted, the filters are applied and
\* create_period_matrix is entered with filtered_df
MainCall ==
    /\ pc = "main"
    /\ ~RangeInvalid(start_date, end_date)
    /\ \E show_all_deals \in BOOLEAN, date_range \in DateRanges,
          selected_deals \in {{}, {"deal"}} :
           df' = FilteredDf(df, show_all_deals, date_range, selected_deals)
    /\ pc' = "gen"
    /\ current_date' = start_date
    /\ UNCHANGED <<start_date, end_date, frequency, period_dates, progression, matrix_data>>
    /\ UNCHANGED stagVars
    /\ UNCHANGED restVars

MainNext == MainStop \/ MainCall \/ GenPeriod \/ GenDone \/ BuildRow \/ Return

SpecMain == MainInit /\ [][MainNext]_vars

\* C15: create_period_matrix is entered, and periods and rows exist, only when
\* the analysis start date is before the analysis end date; with start >= end
\* the flow stops with the error before any period or row.
C15_RangeValidated ==
    /\ pc \in {"gen", "rows", "done", "raised"} => start_date < end_date
    /\ start_date >= end_date =>
           /\ pc \in {"main", "stopped"}
           /\ period_dates = <<>>
           /\ matrix_data = <<>>
    /\ pc = "stopped" => start_date >= end_date

\* the flow has stopped on equal start and end dates
C15_Witness ==
    /\ pc = "stopped"
    /\ start_date = end_date
    /\ df # <<>>

(* ------------------------- a row that cannot be built ------------------- *)

\* a deal whose created_at was written without a time zone
NaiveDeal(s) == MakeDeal(Naive(s), [c \in StageCols |-> NaT])

\* frames without such a deal, and frames with one before, after or alone
FailureFrames(s, f) ==
    {<<d>> : d \in SmallDeals(s, f)} \cup
    {<<NaiveDeal(s)>>} \cup
    {<<d, NaiveDeal(s)>> : d \in SmallDeals(s, f)} \cup
    {<<NaiveDeal(s), d>> : d \in SmallDeals(s, f)}

FailureInit ==
    \E f \in Frequencies, s \in StartDates :
        \E e \in {x \in EndDates(s, f) : x >= s}, frame \in FailureFrames(s, f) :
            Start(s, e, f, frame)

FailureNext == GenPeriod \/ GenDone \/ BuildRow \/ Return

SpecFailure == FailureInit /\ [][FailureNext]_vars

\* C16: a failure in the row of one deal does not leave create_period_matrix:
\* the matrix is returned with the rows of the other deals and an all-empty
\* row for the failing deal.
C16_FailureIsolated ==
    /\ pc # "row_raised"
    /\ pc = "done" =>
           /\ Len(matrix_data) = Len(df)
           /\ \A i \in 1..Len(df) :
                  RowRaises(df[i], period_dates) =>
                      \A j \in 1..Len(matrix_data[i].cells) : matrix_data[i].cells[j][2] = ""

(* --------------------------- loading the file --------------------------- *)

\* strings that pd.to_datetime rejects: a word, a word between T and Z, and a
\* day that its month lacks
Garbled ==
    {<<85, 110, 107, 110, 111, 119, 110>>,
     <<84, 66, 68, 32, 90>>,
     IsoDate(2023, 2, 30) \o <<84, 48, 48, 58, 48, 48, 58, 48, 48, 90>>}

\* the texts of a timestamp cell: empty, well-formed around the end of the
\* first period, or garbled
RawTimes(s, f) ==
    {<<>>, IsoMsZ(PlusDays(s, UnitDays(f))), IsoZ(PlusDays(s, UnitDays(f)) + 1)} \cup Garbled

RawCreated(s, f) ==
    {<<>>, IsoMsZ(PlusDays(s, UnitDays(f)) + 1), <<84, 66, 68, 32, 90>>}

RawDeals(s, f) ==
    {MakeDeal(c, (FieldOf(1) :> a) @@ (FieldOf(2) :> b)) :
        c \in RawCreated(s, f), a \in RawTimes(s, f), b \in RawTimes(s, f)}

\* main is entered with a file of one row on disk
LoadInit ==
    \E f \in Frequencies, e \in {DateTime(2024, 1, 1), DateTime(2024, 1, 8)} :
        \E raw \in RawDeals(DateTime(2024, 1, 1), f) :
            /\ csv_rows = WithIds(<<raw>>)
            /\ Idle
            /\ df = <<>>
            /\ start_date = DateTime(2024, 1, 1)
            /\ end_date = e
            /\ frequency = f
            /\ pc = "load"
            /\ current_date = NaT
            /\ period_dates = <<>>
            /\ progression = <<>>
            /\ matrix_data = <<>>
            /\ rows_seen = 0
            /\ stagnant_deals = <<>>
            /\ prev_report = NoReport

\* load_and_process_data, lines 330-341
LoadData ==
    /\ pc = "load"
    /\ df' = [i \in 1..Len(csv_rows) |-> ParsedDeal(csv_rows[i])]
    /\ pc' = "main"
    /\ UNCHANGED <<start_date, end_date, frequency, current_date, period_dates,
                   progression, matrix_data>>
    /\ UNCHANGED stagVars
    /\ UNCHANGED restVars

LoadNext == LoadData \/ MainStop \/ MainCall \/ GenPeriod \/ GenDone \/ BuildRow \/ Return

SpecLoad == LoadInit /\ [][LoadNext]_vars

\* a text that is there and that pd.to_datetime rejects
Unparseable(str) == str # <<>> /\ ~ToDatetime(str)[1]

\* the row of the file with every such text taken out
Repaired(raw) ==
    [raw EXCEPT !.created_at = IF Unparseable(@) THEN <<>> ELSE @,
                !.cols = [c \in DOMAIN @ |-> IF Unparseable(@[c]) THEN <<>> ELSE @[c]]]

\* C17: a timestamp text that cannot be parsed is loaded as absent; the stage
\* of such a field is no event of the deal, the build does not raise, and the
\* row is the row of the same deal with those fields left empty in the file.
C17_MalformedIsAbsent ==
    pc # "load" =>
        /\ pc # "row_raised"
        /\ \A i \in 1..Len(df) :
               LET raw == csv_rows[df[i].deal_id]
                   prog == get_deal_stage_progression(df[i])
               IN  /\ df[i] = ParsedDeal(Repaired(raw))
                   /\ Unparseable(raw.created_at) => df[i].created_at = NaT
                   /\ \A k \in 1..Len(stage_mapping) :
                          (FieldOf(k) \in DOMAIN raw.cols /\ Unparseable(raw.cols[FieldOf(k)]))
                              => \A n \in 1..Len(prog) : EventName(prog[n]) # StageNameOf(k)
        /\ \A i \in Rows :
               LET twin == ParsedDeal(Repaired(csv_rows[matrix_data[i].DealID]))
               IN  matrix_data[i] =
                       DealRow(twin, get_deal_stage_progression(twin), period_dates, frequency)

\* a matrix returned for a deal with a garbled created_at, a garbled first
\* stage field and a stage shown from the second
C17_Witness ==
    /\ pc = "done"
    /\ Len(matrix_data) = 1
    /\ Unparseable(csv_rows[1].created_at)
    /\ Unparseable(csv_rows[1].cols[FieldOf(1)])
    /\ matrix_data[1].Created = Unknown
    /\ \E j \in 1..Len(matrix_data[1].cells) : matrix_data[1].cells[j][2] = StageNameOf(2)

\* the deal without the unmapped property
WithoutUnmapped(deal) ==
    [deal EXCEPT !.cols = [c \in (DOMAIN @) \ {UnmappedField} |-> @[c]]]

\* C18: a timestamp property that is no key of stage_mapping gives no event:
\* every event of a deal comes from a catalog field, and the progression and
\* the row of a deal are those of the same deal without that property.
C18_UnmappedFieldIgnored ==
    \A i \in 1..Len(df) :
        LET twin == WithoutUnmapped(df[i])
            prog == get_deal_stage_progression(df[i])
        IN  /\ prog = get_deal_stage_progression(twin)
            /\ \A n \in 1..Len(prog) :
                   \E k \in 1..Len(stage_mapping) :
                       /\ EventName(prog[n]) = StageNameOf(k)
                       /\ FieldOf(k) \in DOMAIN df[i].cols
                       /\ EventDate(prog[n]) = df[i].cols[FieldOf(k)]
            /\ i \in Rows =>
                   matrix_data[i] =
                       DealRow(twin, get_deal_stage_progression(twin), period_dates, frequency)

\* a row returned for a deal that has the unmapped property set within the
\* first period and a catalog stage after it
C18_Witness ==
    /\ pc = "done"
    /\ Len(df) = 1
    /\ UnmappedField \in DOMAIN df[1].cols
    /\ df[1].cols[UnmappedField] # NaT
    /\ Len(period_dates) >= 1
    /\ df[1].cols[UnmappedField] < PeriodEnd(period_dates[1], frequency)
    /\ EnteredFields(df[1]) # {}
    /\ Len(progression) = 1

SelectedPos(i, j) ==
    Cardinality({k \in EnteredFields(df[i]) :
                    EnteredAt(df[i], k) <= PeriodEnd(period_dates[j], frequency)})

\* C20: along a row the position, in the deal's sorted events, of the event
\* shown by each non-empty cell never decreases, and a cell that shows another
\* stage than an earlier cell shows an event at a later position.
C20_RowNeverStepsBack ==
    \A i \in Rows :
        LET prog == get_deal_stage_progression(df[i])
        IN  \A j \in Periods :
                CellAt(i, j) # "" =>
                    /\ SelectedPos(i, j) \in 1..Len(prog)
                    /\ CellAt(i, j) = EventName(prog[SelectedPos(i, j)])
                    /\ \A h \in 1..(j - 1) :
                           CellAt(i, h) # "" =>
                               /\ SelectedPos(i, h) <= SelectedPos(i, j)
                               /\ CellAt(i, h) # CellAt(i, j) =>
                                      SelectedPos(i, h) < SelectedPos(i, j)

\* a row that shows one stage and then another
C20_Witness ==
    /\ pc = "done"
    /\ \E i \in Rows : \E h, j \in Periods :
           /\ h < j
           /\ CellAt(i, h) # ""
           /\ CellAt(i, j) # ""
           /\ CellAt(i, h) # CellAt(i, j)

\* C27: in every row the empty cells form a prefix: after a non-empty cell
\* every later cell of the same deal is non-empty, so the rows read by the
\* stagnation analyzer have no gap between populated cells.
C27_EmptyCellsArePrefix ==
    \A i \in Rows :
        LET cells == matrix_data[i].cells
        IN  \A h, j \in 1..Len(cells) :
                (h < j /\ cells[h][2] # "") => cells[j][2] # ""

\* a row of three periods that is empty in the first and populated after it
C27_Witness ==
    /\ pc = "done"
    /\ Len(period_dates) = 3
    /\ \E i \in Rows :
           /\ Len(matrix_data[i].cells) = 3
           /\ matrix_data[i].cells[1][2] = ""
           /\ matrix_data[i].cells[2][2] # ""
           /\ matrix_data[i].cells[3][2] # ""

\* C29: with frequency Monthly the generation of the axis and the computation
\* of the end boundary of each period complete without raising for every start
\* with start <= end, the days of the month 29, 30 and 31 included.
C29_MonthlyCompletes ==
    (frequency = "Monthly" /\ start_date <= end_date) =>
        /\ pc # "raised"
        /\ \A j \in Periods :
               ~ReplaceRaises(period_dates[j],
                              IF MonthOf(period_dates[j]) = 12
                              THEN YearOf(period_dates[j]) + 1
                              ELSE YearOf(period_dates[j]),
                              IF MonthOf(period_dates[j]) = 12 THEN 1
                              ELSE MonthOf(period_dates[j]) + 1)

(* --------------------------- building twice ----------------------------- *)

\* mutant of CallAgain: period_dates is not a fresh list in the second call
CallAgainKeepingPeriods ==
    /\ pc = "done"
    /\ prev_matrix = NoMatrix
    /\ prev_matrix' = <<matrix_data, period_dates>>
    /\ pc' = "gen"
    /\ current_date' = start_date
    /\ matrix_data' = <<>>
    /\ UNCHANGED <<df, start_date, end_date, frequency, progression, period_dates, csv_rows>>
    /\ UNCHANGED stagVars
    /\ UNCHANGED filterVars
    /\ UNCHANGED apiVars
    /\ UNCHANGED quick_option

\* the caller keeps what was returned and calls create_period_matrix again
\* with the same arguments: lines 436-439 and 459 start from empty lists
CallAgain ==
    /\ pc = "done"
    /\ prev_matrix = NoMatrix
    /\ prev_matrix' = <<matrix_data, period_dates>>
    /\ pc' = "gen"
    /\ current_date' = start_date
    /\ period_dates' = <<>>
    /\ matrix_data' = <<>>
    /\ UNCHANGED <<df, start_date, end_date, frequency, progression, csv_rows>>
    /\ UNCHANGED stagVars
    /\ UNCHANGED filterVars
    /\ UNCHANGED apiVars
    /\ UNCHANGED quick_option

TwiceNext == GenPeriod \/ GenDone \/ BuildRow \/ Return \/ CallAgain

SpecTwice == Init /\ [][TwiceNext]_vars

MaxThreshold == 3

\* mutant of CurrentStage: the columns are scanned from the oldest
OldestStage(cells) ==
    IF \E j \in 1..Len(cells) : cells[j][2] # ""
    THEN cells[CHOOSE j \in 1..Len(cells) :
                   cells[j][2] # "" /\ \A h \in 1..(j - 1) : cells[h][2] = ""][2]
    ELSE ""

\* line 898: next((stage for stage in reversed(row) if stage), '')
RECURSIVE CurrentStage(_)
CurrentStage(cells) ==
    IF cells = <<>> THEN ""
    ELSE IF cells[Len(cells)][2] # "" THEN cells[Len(cells)][2]
    ELSE CurrentStage(SubSeq(cells, 1, Len(cells) - 1))

\* lines 893-901 with stages selected and 'Show All Deals' off; the matrix of
\* main has a row (line 888) and a period column (line 720)
StageFilter ==
    /\ pc = "done"
    /\ matrix_data # <<>>
    /\ Len(matrix_data[1].cells) >= 1
    /\ \E selected_stages \in (SUBSET (StagnantStages \ {""})) \ {{}} :
           matrix_data' = SelectSeq(matrix_data,
                              LAMBDA row : CurrentStage(row.cells) \in selected_stages)
    /\ stage_column' = [i \in 1..Len(matrix_data) |->
                           <<matrix_data[i].DealID, CurrentStage(matrix_data[i].cells)>>]
    /\ pc' = "staged"
    /\ UNCHANGED <<df, start_date, end_date, frequency, current_date, period_dates,
                   progression, csv_rows, prev_matrix, stagnant_threshold, shown_rows>>
    /\ UNCHANGED stagVars
    /\ UNCHANGED apiVars
    /\ UNCHANGED quick_option

\* the deal ids of line 910 for slider value n
StagnantDealIds(n) ==
    {stagnant_deals[m].deal_id : m \in {k \in 1..Len(stagnant_deals) :
                                           stagnant_deals[k].stagnant_periods > n}}

\* lines 910-912 on the report of line 909; a report without any record is a
\* DataFrame without columns, and selecting 'stagnant_periods' raises KeyError
StagnantFilter ==
    /\ pc = "reported"
    /\ \E n \in 1..MaxThreshold :
           /\ stagnant_threshold' = n
           /\ IF stagnant_deals = <<>>
              THEN pc' = "filter_raised" /\ UNCHANGED shown_rows
              ELSE /\ pc' = "filtered"
                   /\ shown_rows' = SelectSeq(matrix_data,
                                        LAMBDA row : row.DealID \in StagnantDealIds(n))
    /\ UNCHANGED <<df, start_date, end_date, frequency, current_date, period_dates,
                   progression, matrix_data, csv_rows, prev_matrix, stage_column>>
    /\ UNCHANGED stagVars
    /\ UNCHANGED apiVars
    /\ UNCHANGED quick_option

FiltersNext == StageFilter \/ StagnantRow \/ StagnantReturn \/ StagnantFilter

SpecFilters == StagnantInit /\ [][FiltersNext]_vars

\* C22: the analyzer reports a record whatever its stagnant_periods, and with
\* 'Show only stagnant deals' on the caller always ends with exactly the rows
\* whose deal has stagnant_periods above the slider value.
C22_ThresholdByCaller ==
    /\ pc # "filter_raised"
    /\ pc = "filtered" =>
           shown_rows = SelectSeq(matrix_data, LAMBDA row :
                            \E r \in RecordsOf(row.DealID) :
                                r.stagnant_periods > stagnant_threshold)

\* C28: for a row with a non-empty cell, the current stage the stage filter
\* reads (newest non-empty period column) is the current_stage of the deal's
\* record in the stagnation report.
C28_SameCurrentStage ==
    pc \in {"reported", "filtered", "filter_raised"} =>
        /\ \A i \in Rows :
               Filled(i) # {} =>
                   /\ RecordsOf(matrix_data[i].DealID) # {}
                   /\ \A r \in RecordsOf(matrix_data[i].DealID) :
                          r.current_stage = CurrentStage(matrix_data[i].cells)
        /\ \A n \in 1..Len(stage_column) :
               \A r \in RecordsOf(stage_column[n][1]) : r.current_stage = stage_column[n][2]

\* the stage filter and the analyzer have both read a row that shows two
\* stages and ends with an empty cell
C28_Witness ==
    /\ pc = "reported"
    /\ stage_column # <<>>
    /\ Len(stagnant_deals) >= 1
    /\ \E i \in Rows :
           /\ Cardinality({matrix_data[i].cells[j][2] : j \in Filled(i)}) = 2
           /\ Len(matrix_data[i].cells) \notin Filled(i)

(* ------------------------------ get_all_deals ---------------------------- *)

\* the most pages the API holds and the most deals in one page
MaxPages == 3
MaxPageSize == 2

\* pages of the given sizes; the deals are numbered in the order the API serves them
RECURSIVE PagesOf(_, _)
PagesOf(sizes, first) ==
    IF sizes = <<>> THEN <<>>
    ELSE <<[k \in 1..Head(sizes) |-> first + k - 1]>>
             \o PagesOf(Tail(sizes), first + Head(sizes))

ServerPages ==
    {PagesOf(sizes, 1) : sizes \in UNION {[1..n -> 0..MaxPageSize] : n \in 1..MaxPages}}

\* the page the API serves for params: the first one when no "after" is sent
\* (lines 102-103), else the one the cursor names
PageIndex(a) == IF a = None THEN 1 ELSE a

\* data["paging"]["next"]["after"] of page i, None when the API has no further page
NextCursor(i) == IF i < Len(pages) THEN i + 1 ELSE None

\* the status codes of a response that is not a success
ErrorCodes == {401, 429, 500}

\* mutant of Fetch200: the page replaces the deals collected so far
Fetch200Replacing ==
    /\ pc = "fetch"
    /\ LET i == PageIndex(after)
           deals == pages[i]
       IN  /\ all_deals' = deals
           /\ after' = NextCursor(i)
           /\ requests' = Append(requests, [after |-> after, status_code |-> 200])
           /\ pc' = IF NextCursor(i) = None THEN "fetched" ELSE "fetch"
    /\ UNCHANGED <<df, start_date, end_date, frequency, current_date, period_dates,
                   progression, matrix_data, csv_rows, prev_matrix>>
    /\ UNCHANGED <<access_token, pages, output_file, files_written, cache_cleared,
                   refreshed>>
    /\ UNCHANGED stagVars
    /\ UNCHANGED filterVars
    /\ UNCHANGED quick_option

\* one pass of the loop of line 94 whose response has status 200 (lines 108-123)
Fetch200 ==
    /\ pc = "fetch"
    /\ LET i == PageIndex(after)
           deals == pages[i]
       IN  /\ all_deals' = all_deals \o deals
           /\ after' = NextCursor(i)
           /\ requests' = Append(requests, [after |-> after, status_code |-> 200])
           /\ pc' = IF NextCursor(i) = None THEN "fetched" ELSE "fetch"
    /\ UNCHANGED <<df, start_date, end_date, frequency, current_date, period_dates,
                   progression, matrix_data, csv_rows, prev_matrix>>
    /\ UNCHANGED <<access_token, pages, output_file, files_written, cache_cleared,
                   refreshed>>
    /\ UNCHANGED stagVars
    /\ UNCHANGED filterVars
    /\ UNCHANGED quick_option

\* one pass whose response has another status (lines 125-128)
FetchError ==
    /\ pc = "fetch"
    /\ \E code \in ErrorCodes :
           requests' = Append(requests, [after |-> after, status_code |-> code])
    /\ pc' = "fetched"
    /\ UNCHANGED <<df, start_date, end_date, frequency, current_date, period_dates,
                   progression, matrix_data, csv_rows, prev_matrix>>
    /\ UNCHANGED <<access_token, pages, after, all_deals, output_file, files_written,
                   cache_cleared, refreshed>>
    /\ UNCHANGED stagVars
    /\ UNCHANGED filterVars
    /\ UNCHANGED quick_option

\* one pass in which requests.get raises: there is no response (lines 130-132)
FetchException ==
    /\ pc = "fetch"
    /\ requests' = Append(requests, [after |-> after, status_code |-> None])
    /\ pc' = "fetched"
    /\ UNCHANGED <<df, start_date, end_date, frequency, current_date, period_dates,
                   progression, matrix_data, csv_rows, prev_matrix>>
    /\ UNCHANGED <<access_token, pages, after, all_deals, output_file, files_written,
                   cache_cleared, refreshed>>
    /\ UNCHANGED stagVars
    /\ UNCHANGED filterVars
    /\ UNCHANGED quick_option

(* ------------------------ refresh_data_from_hubspot ---------------------- *)

\* the name built at lines 264-265
SnapshotName == "hubspot_deals_<timestamp>.csv"

\* the button 'Refresh Data' is about to be handled
RefreshInit ==
    \E token \in BOOLEAN, served \in ServerPages :
        /\ df = <<>>
        /\ start_date = DateTime(2024, 1, 1)
        /\ end_date = DateTime(2024, 1, 1)
        /\ frequency = "Weekly"
        /\ pc = "refresh"
        /\ current_date = DateTime(2024, 1, 1)
        /\ period_dates = <<>>
        /\ progression = <<>>
        /\ matrix_data = <<>>
        /\ rows_seen = 0
        /\ stagnant_deals = <<>>
        /\ prev_report = NoReport
        /\ csv_rows = <<>>
        /\ prev_matrix = NoMatrix
        /\ stage_column = <<>>
        /\ stagnant_threshold = 3
        /\ shown_rows = <<>>
        /\ access_token = token
        /\ pages = served
        /\ after = None
        /\ all_deals = <<>>
        /\ requests = <<>>
        /\ output_file = NoFile
        /\ files_written = 0
        /\ cache_cleared = FALSE
        /\ refreshed = FALSE
        /\ quick_option = NoOption

\* lines 352-363 and 264-267: without a token the function returns False; with
\* one, refresh_data calls get_all_deals, which sets its locals (lines 88-90)
RefreshStart ==
    /\ pc = "refresh"
    /\ IF ~access_token
       THEN /\ pc' = "refresh_done"
            /\ refreshed' = FALSE
       ELSE /\ pc' = "fetch"
            /\ UNCHANGED refreshed
    /\ after' = None
    /\ all_deals' = <<>>
    /\ requests' = <<>>
    /\ UNCHANGED <<df, start_date, end_date, frequency, current_date, period_dates,
                   progression, matrix_data, csv_rows, prev_matrix>>
    /\ UNCHANGED <<access_token, pages, output_file, files_written, cache_cleared>>
    /\ UNCHANGED stagVars
    /\ UNCHANGED filterVars
    /\ UNCHANGED quick_option

\* lines 269-275 with export_to_csv: get_all_deals has returned all_deals; with
\* deals the file is written, unless opening or writing it raises, which
\* export_to_csv catches (lines 259-260), and the name is returned either way
RefreshData ==
    /\ pc = "fetched"
    /\ IF all_deals # <<>>
       THEN /\ \E opened \in BOOLEAN :
                   files_written' = IF opened THEN files_written + 1 ELSE files_written
            /\ output_file' = SnapshotName
       ELSE /\ output_file' = NoFile
            /\ UNCHANGED files_written
    /\ pc' = "exported"
    /\ UNCHANGED <<df, start_date, end_date, frequency, current_date, period_dates,
                   progression, matrix_data, csv_rows, prev_matrix>>
    /\ UNCHANGED <<access_token, pages, after, all_deals, requests, cache_cleared,
                   refreshed>>
    /\ UNCHANGED stagVars
    /\ UNCHANGED filterVars
    /\ UNCHANGED quick_option

\* lines 365-372: the cache is cleared and success shown when a name came back
RefreshReturn ==
    /\ pc = "exported"
    /\ IF output_file # NoFile
       THEN /\ cache_cleared' = TRUE
            /\ refreshed' = TRUE
       ELSE /\ refreshed' = FALSE
            /\ UNCHANGED cache_cleared
    /\ pc' = "refresh_done"
    /\ UNCHANGED <<df, start_date, end_date, frequency, current_date, period_dates,
                   progression, matrix_data, csv_rows, prev_matrix>>
    /\ UNCHANGED <<access_token, pages, after, all_deals, requests, output_file,
                   files_written>>
    /\ UNCHANGED stagVars
    /\ UNCHANGED filterVars
    /\ UNCHANGED quick_option

RefreshNext ==
    RefreshStart \/ Fetch200 \/ FetchError \/ FetchException \/ RefreshData \/ RefreshReturn

SpecRefresh == RefreshInit /\ [][RefreshNext]_vars

\* the deals of the pages that answered the requests with status 200, in order
RECURSIVE DealsOfRequests(_)
DealsOfRequests(log) ==
    IF log = <<>> THEN <<>>
    ELSE DealsOfRequests(SubSeq(log, 1, Len(log) - 1)) \o
         (IF log[Len(log)].status_code = 200 THEN pages[PageIndex(log[Len(log)].after)]
          ELSE <<>>)

\* every deal the API holds, page after page
RECURSIVE EveryDeal(_)
EveryDeal(served) ==
    IF served = <<>> THEN <<>> ELSE Head(served) \o EveryDeal(Tail(served))

\* request k got a 200 response that names a next page
HasNext(k) ==
    /\ requests[k].status_code = 200
    /\ NextCursor(PageIndex(requests[k].after)) # None

\* C23: get_all_deals asks for one page at a time, each request after the first
\* with the cursor of the response before it; the loop ends at the first response
\* without a next cursor, the first non-200 response or the first exception;
\* all_deals is the concatenation in page order of the results of the 200
\* pages, and with every request answered 200 it holds every deal exactly once
C23_Pagination ==
    pc \in {"fetch", "fetched"} =>
        /\ \A k \in 1..Len(requests) :
               requests[k].after = IF k = 1 THEN None
                                   ELSE NextCursor(PageIndex(requests[k - 1].after))
        /\ \A k \in 1..(Len(requests) - 1) : HasNext(k)
        /\ pc = "fetch" => (requests = <<>> \/ HasNext(Len(requests)))
        /\ pc = "fetched" => (requests # <<>> /\ ~HasNext(Len(requests)))
        /\ all_deals = DealsOfRequests(requests)
        /\ (pc = "fetched" /\ \A k \in 1..Len(requests) : requests[k].status_code = 200) =>
               /\ all_deals = EveryDeal(pages)
               /\ \A i, j \in 1..Len(all_deals) : all_deals[i] = all_deals[j] => i = j

C23_Witness ==
    /\ pc = "fetched"
    /\ Len(requests) = 3
    /\ \A k \in 1..3 : requests[k].status_code = 200
    /\ Len(all_deals) >= 4

\* C25: the cache is cleared and success reported only if a snapshot was written
C25_RefreshOnlyWhenWritten ==
    pc = "refresh_done" =>
        /\ cache_cleared => files_written > 0
        /\ refreshed => files_written > 0
        /\ files_written = 0 => (~cache_cleared /\ ~refreshed)

(* ---------------------- quick options and the banner -------------------- *)

\* datetime.now().date() on the days the dashboard is used: a day in January,
\* the last day of a month, a first of December and the end of a February
Todays ==
    {DateTime(2024, 1, 15), DateTime(2024, 3, 31), DateTime(2024, 12, 1),
     DateTime(2025, 2, 28)}

\* the dates picked in the date inputs for a monthly analysis
MonthlyDates ==
    {DateTime(2024, 1, 15), DateTime(2024, 1, 31), DateTime(2024, 2, 10),
     DateTime(2024, 3, 20)}

\* main has loaded df and set the session state (lines 596-616)
PeriodsInit ==
    \E frame \in {<<>>, <<ScenarioDeal>>} :
        /\ df = WithIds(frame)
        /\ start_date = DateTime(2024, 1, 1)
        /\ end_date = DateTime(2024, 1, 29)
        /\ frequency = "Weekly"
        /\ pc = "inputs"
        /\ current_date = NaT
        /\ period_dates = <<>>
        /\ progression = <<>>
        /\ matrix_data = <<>>
        /\ rows_seen = 0
        /\ stagnant_deals = <<>>
        /\ prev_report = NoReport
        /\ csv_rows = <<>>
        /\ Idle

\* lines 620-658: the user picks the frequency and the two dates
ChooseDates ==
    /\ pc = "inputs"
    /\ \E f \in Frequencies :
           \E s, e \in (IF f = "Monthly" THEN MonthlyDates ELSE MainDates) :
               /\ frequency' = f
               /\ start_date' = s
               /\ end_date' = e
    /\ pc' = "main"
    /\ UNCHANGED <<df, current_date, period_dates, progression, matrix_data>>
    /\ UNCHANGED stagVars
    /\ UNCHANGED restVars

\* lines 690-702: the button 'Last 12 Months', then the rerun with the session state
Last12Months ==
    /\ pc = "inputs"
    /\ \E today \in Todays :
           LET end_year == YearOf(today)
               end_month == MonthOf(today)
               start_year == IF end_month = 1 THEN end_year - 1 ELSE end_year
               start_month == IF end_month = 1 THEN 12 ELSE end_month - 1
           IN  /\ frequency' = "Monthly"
               /\ end_date' = today
               /\ start_date' = DateTime(start_year, start_month, 1)
    /\ quick_option' = "Last 12 Months"
    /\ pc' = "main"
    /\ UNCHANGED <<df, current_date, period_dates, progression, matrix_data>>
    /\ UNCHANGED stagVars
    /\ UNCHANGED <<csv_rows, prev_matrix>>
    /\ UNCHANGED filterVars
    /\ UNCHANGED apiVars

\* lines 703-715: the button 'Last 24 Months', then the rerun with the session state
Last24Months ==
    /\ pc = "inputs"
    /\ \E today \in Todays :
           LET end_year == YearOf(today)
               end_month == MonthOf(today)
               start_year == IF end_month <= 12 THEN end_year - 2 ELSE end_year - 1
               start_month == IF end_month <= 12 THEN end_month ELSE end_month - 12
           IN  /\ frequency' = "Monthly"
               /\ end_date' = today
               /\ start_date' = DateTime(start_year, start_month, 1)
    /\ quick_option' = "Last 24 Months"
    /\ pc' = "main"
    /\ UNCHANGED <<df, current_date, period_dates, progression, matrix_data>>
    /\ UNCHANGED stagVars
    /\ UNCHANGED <<csv_rows, prev_matrix>>
    /\ UNCHANGED filterVars
    /\ UNCHANGED apiVars

PeriodsNext ==
    \/ ChooseDates
    \/ Last12Months
    \/ Last24Months
    \/ MainStop
    \/ MainCall
    \/ GenPeriod
    \/ GenDone
    \/ BuildRow
    \/ Return

SpecPeriods == PeriodsInit /\ [][PeriodsNext]_vars

\* period_count of lines 724-733
period_count(s, e, f) ==
    IF f = "Daily" THEN ((e - s) \div TicksPerDay) + 1
    ELSE IF f = "Weekly" THEN (((e - s) \div TicksPerDay) \div 7) + 1
    ELSE (YearOf(e) - YearOf(s)) * 12 + (MonthOf(e) - MonthOf(s)) + 1

\* C24: after 'Last 12 Months' (resp. 'Last 24 Months') the frequency is Monthly
\* and the period axis of the range set by the button has exactly 12 (resp. 24)
\* monthly periods
C24_QuickOptionMonths ==
    (AxisBuilt /\ quick_option # NoOption) =>
        /\ frequency = "Monthly"
        /\ end_date \in Todays
        /\ quick_option = "Last 12 Months" => Len(period_dates) = 12
        /\ quick_option = "Last 24 Months" => Len(period_dates) = 24

\* C26: for every accepted start, end and frequency the period count of the
\* banner is the number of periods generated, which is the number of period
\* columns of every row
C26_BannerCount ==
    AxisBuilt =>
        /\ period_count(start_date, end_date, frequency) = Len(period_dates)
        /\ \A i \in Rows : Len(matrix_data[i].cells) = Len(period_dates)

====
